---------------------------- MODULE Spec2Model ----------------------------
(***************************************************************************)
(* Stock-planning optimisation engine of DemandIQ                          *)
(* (src/server/utils/optimizer.py, fed by src/server/utils/forecast.py).    *)
(*                                                                         *)
(* Number representation.  The code computes with Python floats; the model *)
(* computes the same expressions exactly, over integers:                   *)
(*   - quantities of goods (demand, stock) are in hundredths of a unit:    *)
(*     the forecaster rounds every daily prediction to 2 decimals          *)
(*     (forecast.py:316, 322) and the allocator rounds every stock value   *)
(*     to 2 decimals (optimizer.py:134, 153, 154);                         *)
(*   - wastage_risk is in thousandths (round(.., 3), optimizer.py:155);    *)
(*   - service_level is in hundredths of a percent (round(.., 2),          *)
(*     optimizer.py:156);                                                  *)
(*   - intermediate values are exact fractions [n, d]; the standard        *)
(*     deviation, the only irrational value, is kept as the square root of *)
(*     an integer and only ever compared with fractions;                   *)
(*   - round() yields the nearest value.  When the exact value lies midway *)
(*     between two neighbours, the float the code holds lies on one side   *)
(*     or the other of it, depending on its representation error: both     *)
(*     neighbours are outcomes.  A rounding is therefore the set of its    *)
(*     outcomes, and the allocator the set of its possible runs;           *)
(*   - comparisons (<, >, min, max) are made on the exact values.          *)
(***************************************************************************)
EXTENDS Integers, Sequences, FiniteSets, TLC

VARIABLES
    daily_forecast,     \* demand series handed to the allocator (hundredths)
    shelf_life,         \* shelf_life_days of the product
    horizon,            \* planning_horizon of the call
    pc,                 \* position of the call
    initial_stock,      \* the allocator's local daily_stock before its correction pass
    optimized_plan,     \* result of _optimize_single_product, or NoPlan
    recommended_stock,  \* 1st argument of _determine_stock_status
    predicted_demand,   \* 2nd argument of _determine_stock_status
    stock_status,       \* result of _determine_stock_status, or "none"
    earlier,            \* the previous completed call (inputs and result), or NoCall
    product_ids,        \* product_ids of the planning request
    files,              \* the data and model files that exist
    catalog,            \* data/products.csv: product id -> shelf_life_days
    predictions,        \* answer of predict_demand: product id -> daily forecast
    position,           \* index in product_ids of the product planned next
    stock_plan,         \* the plan records built so far
    summary,            \* result of _generate_summary, or NoSummary
    response,           \* what the planning route answers, or NoResponse
    recommendations,    \* result of _generate_recommendations, or <<>>
    cost_analysis       \* result of _calculate_costs, or NoCosts

\* the state of the planning of one product
product_vars == <<daily_forecast, shelf_life, initial_stock, optimized_plan,
                  recommended_stock, predicted_demand, stock_status, earlier>>

\* the state of a planning request
plan_vars == <<product_ids, files, catalog, predictions, position, stock_plan,
               summary, response>>

\* the results of the estimators called on their own
estimate_vars == <<recommendations, cost_analysis>>

vars == <<daily_forecast, shelf_life, horizon, pc, initial_stock, optimized_plan,
          recommended_stock, predicted_demand, stock_status, earlier,
          product_ids, files, catalog, predictions, position, stock_plan,
          summary, response, recommendations, cost_analysis>>

-----------------------------------------------------------------------------
(* Bounds of the model *)

\* longest demand series / largest planning horizon explored
MaxDays == 5

\* _determine_stock_status explored on its own: arguments 0..MaxQuantity
MaxQuantity == 20

\* a demand series is compared with a raised one up to this length
MaxCompareDays == 3

\* longest list of product ids in a planning request
MaxRequested == 2

\* daily demand values explored (hundredths of a unit): a zero day, days that
\* sum to less and to more than one unit, near-equal days, and a day above
\* one unit (so that avg_demand can exceed 1)
DemandVals == {0, 8, 40, 41, 160}

\* shelf lives explored by the allocator: 0, the three status bands, >= 30
ShelfLives == {0, 3, 7, 30}

\* shelf lives explored by _determine_stock_status: both sides of each band edge
StatusShelfLives == {0, 3, 4, 7, 8, 30}

-----------------------------------------------------------------------------
(* Arithmetic helpers *)

Min(a, b) == IF a <= b THEN a ELSE b

Max(a, b) == IF a >= b THEN a ELSE b

RECURSIVE Sum(_)
Sum(s) == IF s = <<>> THEN 0 ELSE Head(s) + Sum(Tail(s))

RECURSIVE SumSq(_)
SumSq(s) == IF s = <<>> THEN 0 ELSE Head(s) * Head(s) + SumSq(Tail(s))

RECURSIVE GCD(_, _)
GCD(a, b) == IF b = 0 THEN a ELSE GCD(b, a % b)

\* the fraction n/d (d > 0) in lowest terms
Frac(n, d) ==
    LET g == GCD(IF n < 0 THEN 0 - n ELSE n, d)
    IN  [n |-> n \div g, d |-> d \div g]

FAdd(p, q) == Frac(p.n * q.d + q.n * p.d, p.d * q.d)

FMul(p, q) == Frac(p.n * q.n, p.d * q.d)

FLess(p, q) == p.n * q.d < q.n * p.d

FMin(p, q) == IF FLess(q, p) THEN q ELSE p

FMax(p, q) == IF FLess(p, q) THEN q ELSE p

\* round(): the outcomes of rounding n/d (n >= 0, d > 0) to an integer
Round(n, d) ==
    LET q == n \div d
        r == n % d
    IN  IF 2 * r < d THEN {q}
        ELSE IF 2 * r > d THEN {q + 1}
        ELSE {q, q + 1}

RECURSIVE ISqrtFrom(_, _)
ISqrtFrom(n, x) ==
    LET y == (x + n \div x) \div 2
    IN  IF y >= x THEN x ELSE ISqrtFrom(n, y)

\* floor of the square root of n >= 0
ISqrt(n) == IF n = 0 THEN 0 ELSE ISqrtFrom(n, n)

\* sign of sqrt(q) - u/v for integers q >= 0, u >= 0, v > 0, s = ISqrt(q),
\* without squaring u: with u = k*v + e, the comparison is decided by k
\* against s, and for k = s by (s + e/v)^2 against q
SqrtCmp(q, s, u, v) ==
    LET k == u \div v
        e == u % v
        lhs == 2 * s * e + (e * e) \div v
        frac == IF (e * e) % v = 0 THEN 0 ELSE 1
        rhs == (q - s * s) * v
    IN  IF k < s THEN 1
        ELSE IF k > s THEN 0 - 1
        ELSE IF lhs + frac <= rhs
             THEN (IF lhs = rhs /\ frac = 0 THEN 0 ELSE 1)
             ELSE 0 - 1

\* sign of (a + b*sqrt(q))/d - (k - 1/2), with s = ISqrt(q)
SurdSide(a, b, q, s, d, k) ==
    LET p == (2 * k - 1) * d - 2 * a
    IN  IF p < 0 THEN 1
        ELSE IF b = 0 THEN (IF p = 0 THEN 0 ELSE 0 - 1)
        ELSE SqrtCmp(q, s, p, 2 * b)

\* round(): the outcomes of rounding (a + b*sqrt(q)) / d to an integer, for
\* integers a, b, q >= 0 and d > 0, s = ISqrt(q)
RoundSurd(a, b, q, s, d) ==
    LET k0 == (a + b * s) \div d
        k == CHOOSE c \in k0 .. (k0 + 2 + b \div d) :
                 SurdSide(a, b, q, s, d, c) >= 0 /\ SurdSide(a, b, q, s, d, c + 1) < 0
    IN  IF SurdSide(a, b, q, s, d, k) = 0 THEN {k - 1, k} ELSE {k}

\* the sequences of length n whose day-th entry is one of choices[day]
RECURSIVE Outcomes(_, _)
Outcomes(choices, n) ==
    IF n <= 0 THEN {<<>>}
    ELSE {Append(p, x) : p \in Outcomes(choices, n - 1), x \in choices[n]}

-----------------------------------------------------------------------------
(* _calculate_wastage_risk, optimizer.py:159-183 *)

\* the weighted sum of line 181 without the clamp of line 183
WeightedRiskUnclamped(total_stock, total_demand, shelf, horizon_days) ==
    LET excess_ratio ==
            FMax(Frac(0, 1),
                 Frac(total_stock.n - total_demand * total_stock.d,
                      total_demand * total_stock.d))
        shelf_life_risk == FMax(Frac(0, 1), Frac(14 - shelf, 14))
        horizon_risk ==
            FMax(Frac(0, 1), Frac(horizon_days - shelf, Max(horizon_days, 1)))
    IN  FAdd(FAdd(FMul(excess_ratio, Frac(1, 2)),
                  FMul(shelf_life_risk, Frac(3, 10))),
             FMul(horizon_risk, Frac(1, 5)))

\* the weighted sum of line 181 with its shelf_life_risk term left out
WeightedRiskNoShelfTerm(total_stock, total_demand, shelf, horizon_days) ==
    LET excess_ratio ==
            FMax(Frac(0, 1),
                 Frac(total_stock.n - total_demand * total_stock.d,
                      total_demand * total_stock.d))
        horizon_risk ==
            FMax(Frac(0, 1), Frac(horizon_days - shelf, Max(horizon_days, 1)))
    IN  FMin(Frac(1, 1),
             FAdd(FMul(excess_ratio, Frac(1, 2)), FMul(horizon_risk, Frac(1, 5))))

\* the weighted sum of line 181 clamped at line 183, as a fraction; total_stock
\* is the fraction sum(daily_stock), total_demand > 0 an integer (hundredths)
WeightedRisk(total_stock, total_demand, shelf, horizon_days) ==
    LET excess_ratio ==
            FMax(Frac(0, 1),
                 Frac(total_stock.n - total_demand * total_stock.d,
                      total_demand * total_stock.d))
        shelf_life_risk == FMax(Frac(0, 1), Frac(14 - shelf, 14))
        horizon_risk ==
            FMax(Frac(0, 1), Frac(horizon_days - shelf, Max(horizon_days, 1)))
        wastage_risk ==
            FAdd(FAdd(FMul(excess_ratio, Frac(1, 2)),
                      FMul(shelf_life_risk, Frac(3, 10))),
                 FMul(horizon_risk, Frac(1, 5)))
    IN  FMin(Frac(1, 1), wastage_risk)

\* the risk, taken as certain whenever nothing is demanded
WastageRiskCertainWithoutDemand(n_stock, total_stock, forecast, shelf) ==
    IF n_stock = 0 \/ forecast = <<>> THEN Frac(0, 1)
    ELSE IF Sum(forecast) = 0 THEN Frac(1, 1)
    ELSE WeightedRisk(total_stock, Sum(forecast), shelf, n_stock)

\* n_stock = len(daily_stock), total_stock = sum(daily_stock) as a fraction
_calculate_wastage_risk(n_stock, total_stock, forecast, shelf) ==
    IF n_stock = 0 \/ forecast = <<>> THEN Frac(0, 1)
    ELSE IF Sum(forecast) = 0
         THEN (IF total_stock.n > 0 THEN Frac(1, 1) ELSE Frac(0, 1))
    ELSE WeightedRisk(total_stock, Sum(forecast), shelf, n_stock)

-----------------------------------------------------------------------------
(* _optimize_single_product, optimizer.py:94-157 *)

\* line 96 with the last day dropped
NDaysOffByOne(forecast, h) == Min(h, Len(forecast)) - 1

\* line 96
NDays(forecast, h) == Min(h, Len(forecast))

\* line 128: day_demand > avg_demand * 1.2, with avg_demand = total / n (line 107)
IsPeakDay(c, n, total) == 5 * n * c > 6 * total

\* line 130 with the mean itself as the threshold: day_demand < avg_demand
IsTroughDayBelowMean(c, n, total) == n * c < total

\* line 130: day_demand < avg_demand * 0.8
IsTroughDay(c, n, total) == 5 * n * c < 4 * total

\* lines 128-131: ten times the factor applied to base_stock
BaseFactor10(c, n, total) ==
    IF IsPeakDay(c, n, total) THEN 11
    ELSE IF IsTroughDay(c, n, total) THEN 9
    ELSE 10

\* line 122: thirty times shelf_life_factor = max(0.1, min(1.0, shelf_life / 30))
ShelfLifeFactor30(shelf) == Max(3, Min(30, shelf))

\* lines 107-109: demand_std / max(avg_demand, 1) = sqrt(num) / den, root = ISqrt(num).
\* For len > 1, np.std is the population deviation sqrt(n*sum(x^2) - sum(x)^2)/n;
\* for len = 1 demand_std is avg_demand * 0.2
Variation(forecast) ==
    LET n == Len(forecast)
        total == Sum(forecast)
        num == IF n > 1 THEN n * SumSq(forecast) - total * total ELSE total * total
    IN  [num |-> num,
         den |-> IF n > 1 THEN Max(total, 100 * n) ELSE 5 * Max(total, 100),
         root |-> ISqrt(num)]

\* the safety factor, never taken as capped
SafetyNeverCapped(v) == FALSE


\* line 109: min(0.5, ..) takes the cap 0.5
SafetyCapped(v) == 4 * v.num >= v.den * v.den

\* lines 116-134: one day's stock, max(0, round(base_stock + safety_stock, 2)),
\* where base_stock = c * BaseFactor10 / 10,
\* safety_stock = c * safety_stock_factor * ShelfLifeFactor30 / 30 and
\* safety_stock_factor = min(1/2, sqrt(v.num) / v.den)
DayStock(c, shelf, n, total, v) ==
    LET a == 3 * c * BaseFactor10(c, n, total) * v.den
        b == c * ShelfLifeFactor30(shelf)
        d == 30 * v.den
    IN  {Max(0, x) : x \in IF SafetyCapped(v)
                           THEN Round(2 * a + b * v.den, 2 * d)
                           ELSE RoundSurd(a, b, v.num, v.root, d)}

\* lines 112-134: the daily stock before the correction pass
InitialStock(forecast, shelf, h) ==
    LET n == Len(forecast)
        total == Sum(forecast)
        v == Variation(forecast)
        days == NDays(forecast, h)
    IN  Outcomes([day \in 1 .. days |-> DayStock(forecast[day], shelf, n, total, v)],
                 days)

\* line 142 without its cap: total_stock / max(total_demand, 1) * 100
ServiceLevelUncapped(total_stock, total_demand) ==
    Frac(100 * total_stock.n, total_stock.d * Max(total_demand, 100))

\* line 142, in percent: min(100, total_stock / max(total_demand, 1) * 100)
ServiceLevel(total_stock, total_demand) ==
    FMin(Frac(100, 1),
         Frac(100 * total_stock.n, total_stock.d * Max(total_demand, 100)))

\* line 145
NeedsCorrection(service_level) == FLess(service_level, Frac(80, 1))

\* line 146 with the quotient inverted: max(service_level, 1) / 80
AdjustmentFactorInverted(service_level) ==
    LET m == FMax(service_level, Frac(1, 1))
    IN  Frac(m.n, 80 * m.d)

\* line 146: 80 / max(service_level, 1)
AdjustmentFactor(service_level) ==
    LET m == FMax(service_level, Frac(1, 1))
    IN  Frac(80 * m.d, m.n)

NoPlan == [daily_stock |-> <<>>, total_stock |-> 0 - 1,
           wastage_risk |-> 0 - 1, service_level |-> 0 - 1]

\* lines 136-157: from the daily stock of line 134 to the returned plan
CorrectedPlan(stock0, forecast, shelf) ==
    LET total0 == Frac(Sum(stock0), 1)
        risk0 == _calculate_wastage_risk(Len(stock0), total0, forecast, shelf)
        level0 == ServiceLevel(total0, Sum(forecast))
        corrected == NeedsCorrection(level0)
        factor == IF corrected THEN AdjustmentFactor(level0) ELSE Frac(1, 1)
        \* lines 147-150
        total1 == FMul(total0, factor)
        level1 == IF corrected THEN ServiceLevel(total1, Sum(forecast)) ELSE level0
        risk1 == IF corrected
                 THEN _calculate_wastage_risk(Len(stock0), total1, forecast, shelf)
                 ELSE risk0
    IN  \* lines 152-157
        {[daily_stock |-> daily, total_stock |-> total,
          wastage_risk |-> risk, service_level |-> level] :
            daily \in Outcomes([day \in 1 .. Len(stock0) |->
                                    Round(stock0[day] * factor.n, factor.d)],
                               Len(stock0)),
            total \in Round(total1.n, total1.d),
            risk \in Round(1000 * risk1.n, risk1.d),
            level \in Round(100 * level1.n, level1.d)}

\* the allocator with an early return of n_days zeros, not max(1, n_days)
OptimizeWithoutPlaceholderDay(forecast, shelf, h) ==
    IF NDays(forecast, h) = 0 \/ forecast = <<>>
    THEN {[initial_stock |-> <<>>,
           plan |-> [daily_stock |-> [day \in 1 .. NDays(forecast, h) |-> 0],
                     total_stock |-> 0, wastage_risk |-> 0, service_level |-> 0]]}
    ELSE UNION {{[initial_stock |-> stock0, plan |-> plan] :
                    plan \in CorrectedPlan(stock0, forecast, shelf)} :
                stock0 \in InitialStock(forecast, shelf, h)}

\* the possible runs of the allocator: the value its local daily_stock holds
\* at line 136 (none on the early return) and the plan it returns
_optimize_single_product(forecast, shelf, h) ==
    IF NDays(forecast, h) = 0 \/ forecast = <<>>
    THEN {[initial_stock |-> <<>>,
           plan |-> [daily_stock |-> [day \in 1 .. Max(1, NDays(forecast, h)) |-> 0],
                     total_stock |-> 0, wastage_risk |-> 0, service_level |-> 0]]}
    ELSE UNION {{[initial_stock |-> stock0, plan |-> plan] :
                    plan \in CorrectedPlan(stock0, forecast, shelf)} :
                stock0 \in InitialStock(forecast, shelf, h)}

-----------------------------------------------------------------------------
(* _determine_stock_status, optimizer.py:185-208 *)

\* lines 193-201: the thresholds in hundredths
UnderstockThreshold(shelf) ==
    IF shelf <= 3 THEN 90 ELSE IF shelf <= 7 THEN 85 ELSE 80

OverstockThreshold(shelf) ==
    IF shelf <= 3 THEN 120 ELSE IF shelf <= 7 THEN 130 ELSE 140

\* lines 203-208 with the thresholds themselves outside the optimal band
DetermineStatusExclusive(recommended, predicted, shelf) ==
    IF predicted = 0
    THEN (IF recommended = 0 THEN "optimal" ELSE "overstock")
    ELSE IF 100 * recommended <= UnderstockThreshold(shelf) * predicted
         THEN "understock"
    ELSE IF 100 * recommended >= OverstockThreshold(shelf) * predicted
         THEN "overstock"
    ELSE "optimal"

_determine_stock_status(recommended, predicted, shelf) ==
    IF predicted = 0
    THEN (IF recommended = 0 THEN "optimal" ELSE "overstock")
    ELSE IF 100 * recommended < UnderstockThreshold(shelf) * predicted
         THEN "understock"
    ELSE IF 100 * recommended > OverstockThreshold(shelf) * predicted
         THEN "overstock"
    ELSE "optimal"

-----------------------------------------------------------------------------
(* _generate_recommendations, optimizer.py:210-243 *)

\* int(): the integer part of n/d (d > 0), towards zero
Truncate(n, d) == IF n >= 0 THEN n \div d ELSE 0 - ((0 - n) \div d)

\* a message without a number in it
Message(text) == [text |-> text, units |-> 0]

\* lines 214-228: the messages for the status; sum([30] * len(daily_stock))
\* is 30 units a day
StatusMessages(plan, status, shelf) ==
    IF status = "overstock"
    THEN <<[text |-> "Consider reducing order quantity by {units} units",
            units |-> Max(5, Truncate(plan.total_stock
                                        - 3000 * Len(plan.daily_stock), 200))]>>
         \o (IF shelf <= 7
             THEN <<Message("Monitor closely for spoilage due to short shelf life")>>
             ELSE <<>>)
         \o <<Message("Consider promotional pricing to move excess inventory")>>
    ELSE IF status = "understock"
    THEN <<[text |-> "Increase order quantity by approximately {units} units",
            units |-> Max(10, Truncate(3000 * Len(plan.daily_stock)
                                         - plan.total_stock, 100))],
           Message("Monitor sales closely to avoid stockouts")>>
    ELSE <<Message("Stock level appears optimal for forecasted demand")>>
         \o (IF plan.wastage_risk > 300
             THEN <<Message("Monitor inventory turnover to minimize waste")>>
             ELSE <<>>)

\* lines 230-235
ShelfLifeMessages(shelf) ==
    IF shelf <= 3
    THEN <<Message("Use FIFO (First In, First Out) inventory management"),
           Message("Consider daily delivery for very perishable items")>>
    ELSE IF shelf <= 7
    THEN <<Message("Implement proper cold chain management")>>
    ELSE <<>>

\* lines 237-241
ServiceLevelMessages(plan) ==
    IF plan.service_level < 9000
    THEN <<Message("Consider increasing safety stock to improve service level")>>
    ELSE IF plan.service_level > 12000
    THEN <<Message("Review forecasting accuracy - may be over-forecasting")>>
    ELSE <<>>

\* recommendations[-4:]: the last four messages
LastFour(messages) == SubSeq(messages, Max(1, Len(messages) - 3), Len(messages))


\* line 243: recommendations[:4]
FirstFour(messages) == SubSeq(messages, 1, Min(4, Len(messages)))

_generate_recommendations(plan, status, shelf) ==
    FirstFour(StatusMessages(plan, status, shelf)
              \o ShelfLifeMessages(shelf)
              \o ServiceLevelMessages(plan))

-----------------------------------------------------------------------------
(* _calculate_costs, optimizer.py:245-263: money in hundredths *)

\* line 248: unit_cost = 5.0
UnitCost == 5

\* lines 249 and 255: holding_cost_rate * 7 = 0.02 * 7, in hundredths
HoldingRate100 == 14

\* the costs, with the holding cost counted over the planning horizon
CalculateCostsOverHorizon(plan) ==
    LET inventory_value == plan.total_stock * UnitCost
    IN  {[estimated_inventory_value |-> inventory_value,
          weekly_holding_cost |-> holding,
          potential_spoilage_cost |-> spoilage,
          total_cost_risk |-> total] :
            holding \in Round(inventory_value * 2 * horizon, 100),
            spoilage \in Round(inventory_value * plan.wastage_risk, 1000),
            total \in Round(inventory_value * (20 * horizon + plan.wastage_risk),
                            1000)}


\* the possible cost breakdowns of a plan
_calculate_costs(plan) ==
    LET inventory_value == plan.total_stock * UnitCost
    IN  {[estimated_inventory_value |-> inventory_value,
          weekly_holding_cost |-> holding,
          potential_spoilage_cost |-> spoilage,
          total_cost_risk |-> total] :
            holding \in Round(inventory_value * HoldingRate100, 100),
            spoilage \in Round(inventory_value * plan.wastage_risk, 1000),
            total \in Round(inventory_value * (10 * HoldingRate100 + plan.wastage_risk),
                            1000)}

-----------------------------------------------------------------------------
(* _generate_summary, optimizer.py:265-287 *)

\* sum of field f over the records of a sequence
RECURSIVE SumOf(_, _)
SumOf(records, f) ==
    IF records = <<>> THEN 0 ELSE Head(records)[f] + SumOf(Tail(records), f)

\* the histogram, each status met being given the count 1
StatusCountsWithoutIncrement(records) ==
    [status \in {records[i].stock_status : i \in 1 .. Len(records)} |-> 1]


\* lines 275-278: status -> number of records with it, for the statuses met
StatusCounts(records) ==
    [status \in {records[i].stock_status : i \in 1 .. Len(records)} |->
        Cardinality({i \in 1 .. Len(records) : records[i].stock_status = status})]

\* line 267: the empty dictionary
EmptySummary == [is_empty |-> TRUE]

\* the possible summaries of a record sequence; optimization_date, the time of
\* the call, is left out
_generate_summary(records) ==
    IF records = <<>> THEN {EmptySummary}
    ELSE {[is_empty |-> FALSE,
           total_recommended_stock |-> SumOf(records, "recommended_stock"),
           total_predicted_demand |-> SumOf(records, "predicted_demand"),
           overall_service_level |-> level,
           average_wastage_risk |-> risk,
           stock_status_distribution |-> StatusCounts(records)] :
             level \in Round(SumOf(records, "service_level"), Len(records)),
             risk \in Round(SumOf(records, "wastage_risk"), Len(records))}

-----------------------------------------------------------------------------
(* The planning of one product: optimize_stock_plan, optimizer.py:50-62 *)

NoSummary == [is_empty |-> TRUE, pending |-> TRUE]

NoResponse == [code |-> 0, body |-> "none"]

NoCosts == [estimated_inventory_value |-> 0 - 1, weekly_holding_cost |-> 0 - 1,
            potential_spoilage_cost |-> 0 - 1, total_cost_risk |-> 0 - 1]

\* no estimator is being called on its own
EstimateIdle ==
    /\ recommendations = <<>>
    /\ cost_analysis = NoCosts

\* no planning request is being served
PlanIdle ==
    /\ product_ids = [kind |-> "none", ids |-> <<>>]
    /\ files = {}
    /\ catalog = <<>>
    /\ predictions = <<>>
    /\ position = 0
    /\ stock_plan = <<>>
    /\ summary = NoSummary
    /\ response = NoResponse

NoCall == [daily_forecast |-> <<>>, shelf_life |-> 0 - 1, horizon |-> 0 - 1,
           initial_stock |-> <<>>, optimized_plan |-> NoPlan]

\* demand series of length n over DemandVals
Series(n) == [1 .. n -> DemandVals]

\* planning_horizon is taken from the request as it comes (plan.py:37);
\* predict_demand answers a horizon h >= 1 with h daily values and a horizon
\* h <= 0 with none (forecast.py:251-327), and that answer is the series handed
\* to the allocator with the same horizon (optimizer.py:32, 51, 55-57)
predict_demand(days_ahead) == Series(Max(days_ahead, 0))

Init ==
    /\ horizon \in (0 - 1) .. MaxDays
    /\ daily_forecast \in predict_demand(horizon)
    /\ shelf_life \in ShelfLives
    /\ pc = "request"
    /\ initial_stock = <<>>
    /\ optimized_plan = NoPlan
    /\ recommended_stock = 0
    /\ predicted_demand = 0
    /\ stock_status = "none"
    /\ earlier = NoCall
    /\ PlanIdle
    /\ EstimateIdle

\* lines 55-62 with the plan of the earlier call kept and returned again
OptimizeProductReusingLastPlan ==
    /\ pc = "request"
    /\ \E run \in IF earlier = NoCall
                   THEN _optimize_single_product(daily_forecast, shelf_life, horizon)
                   ELSE {[initial_stock |-> earlier.initial_stock,
                          plan |-> earlier.optimized_plan]} :
          /\ initial_stock' = run.initial_stock
          /\ optimized_plan' = run.plan
          /\ recommended_stock' = run.plan.total_stock
          /\ predicted_demand' = Sum(daily_forecast)
          /\ stock_status' =
                 _determine_stock_status(run.plan.total_stock, Sum(daily_forecast),
                                         shelf_life)
    /\ pc' = "planned"
    /\ UNCHANGED <<daily_forecast, shelf_life, horizon, earlier>>
    /\ UNCHANGED plan_vars
    /\ UNCHANGED estimate_vars

\* lines 55-62: allocate, then classify total_stock against total_forecast,
\* the sum of the daily forecast (forecast.py:327)
OptimizeProduct ==
    /\ pc = "request"
    /\ \E run \in _optimize_single_product(daily_forecast, shelf_life, horizon) :
          /\ initial_stock' = run.initial_stock
          /\ optimized_plan' = run.plan
          /\ recommended_stock' = run.plan.total_stock
          /\ predicted_demand' = Sum(daily_forecast)
          /\ stock_status' =
                 _determine_stock_status(run.plan.total_stock, Sum(daily_forecast),
                                         shelf_life)
    /\ pc' = "planned"
    /\ UNCHANGED <<daily_forecast, shelf_life, horizon, earlier>>
    /\ UNCHANGED plan_vars
    /\ UNCHANGED estimate_vars

ThisCall == [daily_forecast |-> daily_forecast, shelf_life |-> shelf_life,
             horizon |-> horizon, initial_stock |-> initial_stock,
             optimized_plan |-> optimized_plan]

\* the next planning call for the product, after the forecaster's prediction
\* for one day (forecast.py:315-316) has become larger
RaiseDemand(day, value) ==
    /\ pc = "planned"
    /\ earlier = NoCall
    /\ Len(daily_forecast) <= MaxCompareDays
    /\ day \in 1 .. Len(daily_forecast)
    /\ value > daily_forecast[day]
    /\ daily_forecast' = [daily_forecast EXCEPT ![day] = value]
    /\ earlier' = ThisCall
    /\ pc' = "request"
    /\ initial_stock' = <<>>
    /\ optimized_plan' = NoPlan
    /\ stock_status' = "none"
    /\ UNCHANGED <<shelf_life, horizon, recommended_stock, predicted_demand>>
    /\ UNCHANGED plan_vars
    /\ UNCHANGED estimate_vars

\* the next planning call for the product, after its catalog entry
\* (optimizer.py:50) has been given a shorter shelf life
ShortenShelfLife(days) ==
    /\ pc = "planned"
    /\ earlier = NoCall
    /\ days < shelf_life
    /\ shelf_life' = days
    /\ earlier' = ThisCall
    /\ pc' = "request"
    /\ initial_stock' = <<>>
    /\ optimized_plan' = NoPlan
    /\ stock_status' = "none"
    /\ UNCHANGED <<daily_forecast, horizon, recommended_stock, predicted_demand>>
    /\ UNCHANGED plan_vars
    /\ UNCHANGED estimate_vars

\* a later planning call for the product, after its forecast and its catalog
\* entry have come back to what they were at the earlier call: the allocator
\* is called a third time, with the arguments of the first
Recall ==
    /\ pc = "planned"
    /\ earlier # NoCall
    /\ Len(daily_forecast) <= MaxCompareDays
    /\ <<daily_forecast, shelf_life>> # <<earlier.daily_forecast, earlier.shelf_life>>
    /\ daily_forecast' = earlier.daily_forecast
    /\ shelf_life' = earlier.shelf_life
    /\ pc' = "request"
    /\ initial_stock' = <<>>
    /\ optimized_plan' = NoPlan
    /\ stock_status' = "none"
    /\ UNCHANGED <<horizon, recommended_stock, predicted_demand, earlier>>
    /\ UNCHANGED plan_vars
    /\ UNCHANGED estimate_vars

Next ==
    \/ OptimizeProduct
    \/ \E day \in 1 .. MaxDays, value \in DemandVals : RaiseDemand(day, value)
    \/ \E days \in ShelfLives : ShortenShelfLife(days)
    \/ Recall

Spec == Init /\ [][Next]_vars

-----------------------------------------------------------------------------
(* _determine_stock_status on its own arguments *)

\* the two quantities are whole numbers here: the status depends on their
\* ratio only, and on whole numbers the float quotient of line 190 is the
\* nearest double of the exact ratio, as the threshold literals are

InitStatus ==
    /\ recommended_stock \in 0 .. MaxQuantity
    /\ predicted_demand \in 0 .. MaxQuantity
    /\ shelf_life \in StatusShelfLives
    /\ pc = "status"
    /\ stock_status = "none"
    /\ daily_forecast = <<>>
    /\ horizon = 0
    /\ initial_stock = <<>>
    /\ optimized_plan = NoPlan
    /\ earlier = NoCall
    /\ PlanIdle
    /\ EstimateIdle

DetermineStatus ==
    /\ pc = "status"
    /\ stock_status' =
           _determine_stock_status(recommended_stock, predicted_demand, shelf_life)
    /\ pc' = "classified"
    /\ UNCHANGED <<daily_forecast, shelf_life, horizon, initial_stock,
                   optimized_plan, recommended_stock, predicted_demand, earlier>>
    /\ UNCHANGED plan_vars
    /\ UNCHANGED estimate_vars

NextStatus == DetermineStatus

SpecStatus == InitStatus /\ [][NextStatus]_vars

-----------------------------------------------------------------------------
(* The planning request: create_stock_plan, plan.py:30-75, with            *)
(* optimize_stock_plan, optimizer.py:20-92, load_model, forecast.py:192-218, *)
(* and predict_demand, forecast.py:220-340                                  *)


\* the product ids a request may name: two of the catalog and one unknown to it
RequestIds == {"A", "B", "X"}

\* the ids of data/products.csv, in the order of the file
CatalogIds == <<"A", "B">>

\* the shelf_life_days of a row of data/products.csv, as pandas reads it: a
\* number, NaN where the cell is empty, or nothing where the file has no such
\* column
ShelfLifeValue(days) == [shelf_life_days |-> days, cell |-> "value"]

ShelfLifeNaN == [shelf_life_days |-> 0, cell |-> "nan"]

ShelfLifeAbsent == [shelf_life_days |-> 0, cell |-> "absent"]

\* the possible contents of data/products.csv: the row of each product
Catalogs ==
    {[id \in {"A", "B"} |-> IF id = "A" THEN ShelfLifeValue(shelf)
                                        ELSE ShelfLifeValue(7)] :
        shelf \in ShelfLives}
    \cup {[id \in {"A", "B"} |-> IF id = "A" THEN ShelfLifeNaN ELSE ShelfLifeValue(7)],
          [id \in {"A", "B"} |-> ShelfLifeAbsent]}

\* optimizer.py:50: product_info.get('shelf_life_days', 7), for a row whose
\* shelf life is a number or absent
ShelfLifeOf(product_info) ==
    IF product_info.cell = "absent" THEN 7 ELSE product_info.shelf_life_days

\* a row whose shelf life is NaN: get() returns the NaN, not the default; the
\* allocator, the status and the recommendations compute with it without
\* raising, and int(shelf_life) of optimizer.py:72 raises ValueError
ShelfLifeIsNaN(product_info) == product_info.cell = "nan"

DataFiles == {"data/products.csv", "data/sales.csv", "models/demand_model.pkl"}

\* planning horizons requested: negative, zero, one day, several days
PlanHorizons == {0 - 1, 0, 1, 2}

\* daily values forecast: none, less than a unit, more than a unit
PlanDemandVals == {0, 8, 160}

\* forecast.py:324-330: the answer of predict_demand for one product
Prediction(daily_predictions) ==
    [daily_forecast |-> daily_predictions, total_forecast |-> Sum(daily_predictions)]

\* what predict_demand may answer for one product (forecast.py:251-330)
PlanForecasts(days_ahead) ==
    {Prediction(daily_predictions) :
        daily_predictions \in [1 .. Max(days_ahead, 0) -> PlanDemandVals]}

\* optimizer.py:28: the first 10 products of the catalog
DefaultProducts == 10

\* the state of the planning of one product, unused by the request
ProductIdle ==
    /\ daily_forecast = <<>>
    /\ shelf_life = 0
    /\ initial_stock = <<>>
    /\ optimized_plan = NoPlan
    /\ recommended_stock = 0
    /\ predicted_demand = 0
    /\ stock_status = "none"
    /\ earlier = NoCall

\* a request: product_ids absent, not a list, or a list of at most MaxRequested ids
InitPlan ==
    /\ product_ids \in
          {[kind |-> "none", ids |-> <<>>], [kind |-> "other", ids |-> <<>>]}
          \cup {[kind |-> "list", ids |-> ids] :
                   ids \in UNION {[1 .. n -> RequestIds] : n \in 0 .. MaxRequested}}
    /\ horizon \in PlanHorizons
    /\ files \in SUBSET DataFiles
    /\ IF "data/products.csv" \in files THEN catalog \in Catalogs ELSE catalog = <<>>
    /\ predictions = <<>>
    /\ position = 0
    /\ stock_plan = <<>>
    /\ summary = NoSummary
    /\ response = NoResponse
    /\ pc = "received"
    /\ ProductIdle
    /\ EstimateIdle

\* the route answers with an error
Fail(code) ==
    /\ response' = [code |-> code, body |-> "error"]
    /\ pc' = "responded"

\* the validation, without the test for an empty list
ValidateRequestAcceptingEmptyList ==
    /\ pc = "received"
    /\ IF product_ids.kind = "other"
       THEN Fail(400)
       ELSE pc' = "select" /\ UNCHANGED response
    /\ UNCHANGED <<horizon, product_ids, files, catalog, predictions, position,
                   stock_plan, summary>>
    /\ UNCHANGED product_vars
    /\ UNCHANGED estimate_vars


\* plan.py:36-41
ValidateRequest ==
    /\ pc = "received"
    /\ IF product_ids.kind = "other"
          \/ (product_ids.kind = "list" /\ Len(product_ids.ids) = 0)
       THEN Fail(400)
       ELSE pc' = "select" /\ UNCHANGED response
    /\ UNCHANGED <<horizon, product_ids, files, catalog, predictions, position,
                   stock_plan, summary>>
    /\ UNCHANGED product_vars
    /\ UNCHANGED estimate_vars

\* optimizer.py:24-28, with plan.py:70-72 for the FileNotFoundError
SelectProducts ==
    /\ pc = "select"
    /\ IF product_ids.kind # "none"
       THEN pc' = "load" /\ UNCHANGED <<product_ids, response>>
       ELSE IF "data/products.csv" \notin files
       THEN Fail(404) /\ UNCHANGED product_ids
       ELSE /\ product_ids' =
                  [kind |-> "list",
                   ids |-> SubSeq(CatalogIds, 1, Min(DefaultProducts, Len(CatalogIds)))]
            /\ pc' = "load"
            /\ UNCHANGED response
    /\ UNCHANGED <<horizon, files, catalog, predictions, position, stock_plan,
                   summary>>
    /\ UNCHANGED product_vars
    /\ UNCHANGED estimate_vars

\* forecast.py:222 and 192-218: the model file is loaded; when it is missing, or
\* cannot be read, train_model (forecast.py:51-190) is called, which raises
\* FileNotFoundError without its two data files and may fail on their content
LoadModel ==
    /\ pc = "load"
    /\ \/ /\ "models/demand_model.pkl" \in files
          /\ pc' = "predict"
          /\ UNCHANGED <<files, response>>
       \/ /\ {"data/sales.csv", "data/products.csv"} \subseteq files
          /\ files' = files \cup {"models/demand_model.pkl"}
          /\ pc' = "predict"
          /\ UNCHANGED response
       \/ /\ {"data/sales.csv", "data/products.csv"} \subseteq files
          /\ Fail(500)
          /\ UNCHANGED files
       \/ /\ ~({"data/sales.csv", "data/products.csv"} \subseteq files)
          /\ Fail(404)
          /\ UNCHANGED files
    /\ UNCHANGED <<horizon, product_ids, catalog, predictions, position,
                   stock_plan, summary>>
    /\ UNCHANGED product_vars
    /\ UNCHANGED estimate_vars

\* the forecast, made without looking for the catalog file first
PredictDemandWithoutCatalogCheck ==
    /\ pc = "predict"
    /\ \E served \in SUBSET ({product_ids.ids[i] : i \in 1 .. Len(product_ids.ids)}
                              \cap DOMAIN catalog) :
          predictions' \in [served -> PlanForecasts(horizon)]
    /\ position' = 1
    /\ pc' = "loop"
    /\ UNCHANGED response
    /\ UNCHANGED <<horizon, product_ids, files, catalog, stock_plan, summary>>
    /\ UNCHANGED product_vars
    /\ UNCHANGED estimate_vars


\* forecast.py:225-334: without the catalog FileNotFoundError; otherwise a
\* forecast for requested ids of the catalog: an id unknown to the catalog is
\* skipped (lines 243-246), and so is one whose processing raises (331-333)
PredictDemand ==
    /\ pc = "predict"
    /\ IF "data/products.csv" \notin files
       THEN Fail(404) /\ UNCHANGED <<predictions, position>>
       ELSE /\ \E served \in SUBSET ({product_ids.ids[i] : i \in 1 .. Len(product_ids.ids)}
                                      \cap DOMAIN catalog) :
                  predictions' \in [served -> PlanForecasts(horizon)]
            /\ position' = 1
            /\ pc' = "loop"
            /\ UNCHANGED response
    /\ UNCHANGED <<horizon, product_ids, files, catalog, stock_plan, summary>>
    /\ UNCHANGED product_vars
    /\ UNCHANGED estimate_vars

\* optimizer.py:59-81: the record of a product
PlanRecord(product_id, shelf, total_forecast, plan, costs) ==
    [product_id |-> product_id,
     shelf_life_days |-> shelf,
     predicted_demand |-> total_forecast,
     recommended_stock |-> plan.total_stock,
     daily_stock_plan |-> plan.daily_stock,
     stock_status |-> _determine_stock_status(plan.total_stock, total_forecast, shelf),
     wastage_risk |-> plan.wastage_risk,
     service_level |-> plan.service_level,
     recommendations |->
         _generate_recommendations(
             plan, _determine_stock_status(plan.total_stock, total_forecast, shelf),
             shelf),
     cost_analysis |-> costs]

\* optimizer.py:50-81: the records the loop may append for a product
PlanRecords(product_id, shelf, prediction) ==
    UNION {{PlanRecord(product_id, shelf, prediction.total_forecast, run.plan, costs) :
               costs \in _calculate_costs(run.plan)} :
           run \in _optimize_single_product(prediction.daily_forecast, shelf, horizon)}

\* the loop over product_ids, leaving at the first id it cannot resolve
PlanProductStoppingAtUnknown ==
    /\ pc = "loop"
    /\ position <= Len(product_ids.ids)
    /\ LET product_id == product_ids.ids[position]
       IN  IF product_id \notin DOMAIN predictions \/ product_id \notin DOMAIN catalog
           THEN /\ position' = Len(product_ids.ids) + 1
                /\ UNCHANGED <<stock_plan, pc, response>>
           ELSE IF ShelfLifeIsNaN(catalog[product_id])
           THEN /\ Fail(500)
                /\ stock_plan' = <<>>
                /\ UNCHANGED position
           ELSE /\ \E record \in PlanRecords(product_id, ShelfLifeOf(catalog[product_id]),
                                              predictions[product_id]) :
                      stock_plan' = Append(stock_plan, record)
                /\ position' = position + 1
                /\ UNCHANGED <<pc, response>>
    /\ UNCHANGED <<horizon, product_ids, files, catalog, predictions, summary>>
    /\ UNCHANGED product_vars
    /\ UNCHANGED estimate_vars


\* the loop over product_ids, the shelf life of the first product planned
\* being kept for the products after it
PlanProductKeepingShelfLife ==
    /\ pc = "loop"
    /\ position <= Len(product_ids.ids)
    /\ LET product_id == product_ids.ids[position]
       IN  IF product_id \notin DOMAIN predictions \/ product_id \notin DOMAIN catalog
           THEN /\ position' = position + 1
                /\ UNCHANGED <<stock_plan, pc, response>>
           ELSE IF ShelfLifeIsNaN(catalog[product_id])
           THEN /\ Fail(500)
                /\ stock_plan' = <<>>
                /\ UNCHANGED position
           ELSE /\ \E record \in PlanRecords(product_id,
                                              IF stock_plan # <<>>
                                              THEN stock_plan[1].shelf_life_days
                                              ELSE ShelfLifeOf(catalog[product_id]),
                                              predictions[product_id]) :
                      stock_plan' = Append(stock_plan, record)
                /\ position' = position + 1
                /\ UNCHANGED <<pc, response>>
    /\ UNCHANGED <<horizon, product_ids, files, catalog, predictions, summary>>
    /\ UNCHANGED product_vars
    /\ UNCHANGED estimate_vars


\* optimizer.py:39-81: one turn of the loop over product_ids. The ValueError
\* of line 72 leaves the function through lines 90-92 and the route answers
\* 500 (plan.py:73-75); the records made so far are lost with it
PlanProduct ==
    /\ pc = "loop"
    /\ position <= Len(product_ids.ids)
    /\ LET product_id == product_ids.ids[position]
       IN  IF product_id \notin DOMAIN predictions \/ product_id \notin DOMAIN catalog
           THEN /\ position' = position + 1
                /\ UNCHANGED <<stock_plan, pc, response>>
           ELSE IF ShelfLifeIsNaN(catalog[product_id])
           THEN /\ Fail(500)
                /\ stock_plan' = <<>>
                /\ UNCHANGED position
           ELSE /\ \E record \in PlanRecords(product_id, ShelfLifeOf(catalog[product_id]),
                                              predictions[product_id]) :
                      stock_plan' = Append(stock_plan, record)
                /\ position' = position + 1
                /\ UNCHANGED <<pc, response>>
    /\ UNCHANGED <<horizon, product_ids, files, catalog, predictions, summary>>
    /\ UNCHANGED product_vars
    /\ UNCHANGED estimate_vars

\* optimizer.py:83-88: the loop is over, the summary is made and the plan returned
ReturnPlan ==
    /\ pc = "loop"
    /\ position > Len(product_ids.ids)
    /\ summary' \in _generate_summary(stock_plan)
    /\ pc' = "returned"
    /\ UNCHANGED <<horizon, product_ids, files, catalog, predictions, position,
                   stock_plan, response>>
    /\ UNCHANGED product_vars
    /\ UNCHANGED estimate_vars

\* plan.py:49-68
Respond ==
    /\ pc = "returned"
    /\ IF stock_plan = <<>>
       THEN Fail(500)
       ELSE /\ response' = [code |-> 200, body |-> "plan"]
            /\ pc' = "responded"
    /\ UNCHANGED <<horizon, product_ids, files, catalog, predictions, position,
                   stock_plan, summary>>
    /\ UNCHANGED product_vars
    /\ UNCHANGED estimate_vars

NextPlan ==
    \/ ValidateRequest
    \/ SelectProducts
    \/ LoadModel
    \/ PredictDemand
    \/ PlanProduct
    \/ ReturnPlan
    \/ Respond

SpecPlan == InitPlan /\ [][NextPlan]_vars

-----------------------------------------------------------------------------
(* predict_demand day by day, forecast.py:232-336, once the model is loaded  *)
(* and the catalog read                                                      *)

\* what the model predicts for a day, rounded to 2 decimals (line 316): a
\* regression may go below zero
RawPredictions == {0 - 40, 0, 8, 160}

\* a day's prediction: made by the model, or failed (line 318)
DayOutcomes ==
    {[ok |-> TRUE, pred |-> pred] : pred \in RawPredictions}
    \cup {[ok |-> FALSE, pred |-> 0]}

\* lines 233-236: the mean quantity sold of each product of data/sales.csv,
\* when the file exists; product B has no sales
historical_avg ==
    IF "data/sales.csv" \in files THEN [id \in {"A"} |-> 1234] ELSE <<>>

\* the 30.0 of lines 303 and 321: the average assumed for a product without sales
DefaultAvg == 3000

\* lines 321-322: the value given to a day whose prediction failed
Fallback(product_id) ==
    Max(0, IF product_id \in DOMAIN historical_avg
           THEN historical_avg[product_id] ELSE DefaultAvg)

\* lines 316 and 322: the value appended for a day
DayValue(product_id, outcome) ==
    IF outcome.ok THEN Max(0, outcome.pred) ELSE Fallback(product_id)

InitForecast ==
    /\ product_ids \in
          {[kind |-> "list", ids |-> ids] :
              ids \in UNION {[1 .. n -> RequestIds] : n \in 1 .. MaxRequested}}
    /\ horizon \in PlanHorizons
    /\ files \in {DataFiles, DataFiles \ {"data/sales.csv"}}
    /\ catalog \in Catalogs
    /\ predictions = <<>>
    /\ position = 1
    /\ stock_plan = <<>>
    /\ summary = NoSummary
    /\ response = NoResponse
    /\ pc = "forecast"
    /\ ProductIdle
    /\ EstimateIdle

\* the forecast of a product, a day whose prediction fails being left out
ForecastProductDroppingFailedDays ==
    /\ pc = "forecast"
    /\ position <= Len(product_ids.ids)
    /\ LET product_id == product_ids.ids[position]
           Made(outcome) == outcome.ok
       IN  IF product_id \notin DOMAIN catalog
           THEN UNCHANGED predictions
           ELSE \E outcomes \in [1 .. Max(horizon, 0) -> DayOutcomes] :
                  LET made == SelectSeq(outcomes, Made)
                      daily_predictions ==
                          [day \in 1 .. Len(made) |-> DayValue(product_id, made[day])]
                  IN  predictions' =
                          [id \in DOMAIN predictions \cup {product_id} |->
                              IF id = product_id THEN Prediction(daily_predictions)
                              ELSE predictions[id]]
    /\ position' = position + 1
    /\ UNCHANGED <<pc, horizon, product_ids, files, catalog, stock_plan, summary,
                   response>>
    /\ UNCHANGED product_vars
    /\ UNCHANGED estimate_vars

\* lines 240-330: one turn of the loop over product_ids. An id unknown to the
\* catalog is skipped (243-246); otherwise each of range(days_ahead) days gets
\* the model's prediction or, when that fails, the fallback
ForecastProduct ==
    /\ pc = "forecast"
    /\ position <= Len(product_ids.ids)
    /\ LET product_id == product_ids.ids[position]
       IN  IF product_id \notin DOMAIN catalog
           THEN UNCHANGED predictions
           ELSE \E outcomes \in [1 .. Max(horizon, 0) -> DayOutcomes] :
                  LET daily_predictions ==
                          [day \in 1 .. Max(horizon, 0) |->
                              DayValue(product_id, outcomes[day])]
                  IN  predictions' =
                          [id \in DOMAIN predictions \cup {product_id} |->
                              IF id = product_id THEN Prediction(daily_predictions)
                              ELSE predictions[id]]
    /\ position' = position + 1
    /\ UNCHANGED <<pc, horizon, product_ids, files, catalog, stock_plan, summary,
                   response>>
    /\ UNCHANGED product_vars
    /\ UNCHANGED estimate_vars

\* lines 332-334: the processing of a product of the catalog raises; the
\* product is left without a forecast
ProductFails ==
    /\ pc = "forecast"
    /\ position <= Len(product_ids.ids)
    /\ product_ids.ids[position] \in DOMAIN catalog
    /\ position' = position + 1
    /\ UNCHANGED <<pc, horizon, product_ids, files, catalog, predictions,
                   stock_plan, summary, response>>
    /\ UNCHANGED product_vars
    /\ UNCHANGED estimate_vars

\* line 336
ReturnPredictions ==
    /\ pc = "forecast"
    /\ position > Len(product_ids.ids)
    /\ pc' = "forecast_done"
    /\ UNCHANGED <<horizon, product_ids, files, catalog, predictions, position,
                   stock_plan, summary, response>>
    /\ UNCHANGED product_vars
    /\ UNCHANGED estimate_vars

NextForecast ==
    \/ ForecastProduct
    \/ ProductFails
    \/ ReturnPredictions

SpecForecast == InitForecast /\ [][NextForecast]_vars

-----------------------------------------------------------------------------
(* _generate_recommendations and _calculate_costs on their own arguments,    *)
(* called as optimize_stock_plan calls them, optimizer.py:64-67 and 80       *)

\* days of the plan handed to the estimators
MaxPlanDays == 2

\* total stocks: none, 0.05 (a holding cost midway between two cents), 0.8,
\* and 50 units, which is beyond 30 units a day
EstimateStocks == {0, 5, 80, 5000}

\* wastage risks, around the 0.3 of line 227
EstimateRisks == {0, 300, 301, 1000}

\* service levels, around the 90 and the 120 of lines 238-240
EstimateLevels == {0, 8999, 9000, 10000, 12000, 12001}

\* a plan of n days with the given total
EstimatePlan(n, total_stock, wastage_risk, service_level) ==
    [daily_stock |-> [day \in 1 .. n |-> IF day = n THEN total_stock ELSE 0],
     total_stock |-> total_stock,
     wastage_risk |-> wastage_risk,
     service_level |-> service_level]

InitEstimate ==
    /\ optimized_plan \in
          {EstimatePlan(n, total_stock, wastage_risk, service_level) :
              n \in 1 .. MaxPlanDays, total_stock \in EstimateStocks,
              wastage_risk \in EstimateRisks, service_level \in EstimateLevels}
    /\ stock_status \in {"optimal", "overstock", "understock"}
    /\ shelf_life \in StatusShelfLives
    /\ horizon \in PlanHorizons
    /\ pc = "recommend"
    /\ daily_forecast = <<>>
    /\ initial_stock = <<>>
    /\ recommended_stock = 0
    /\ predicted_demand = 0
    /\ earlier = NoCall
    /\ PlanIdle
    /\ EstimateIdle

\* optimizer.py:64-67
Recommend ==
    /\ pc = "recommend"
    /\ recommendations' =
           _generate_recommendations(optimized_plan, stock_status, shelf_life)
    /\ pc' = "cost"
    /\ UNCHANGED <<horizon, cost_analysis>>
    /\ UNCHANGED product_vars
    /\ UNCHANGED plan_vars

\* optimizer.py:80
CalculateCosts ==
    /\ pc = "cost"
    /\ cost_analysis' \in _calculate_costs(optimized_plan)
    /\ pc' = "estimated"
    /\ UNCHANGED <<horizon, recommendations>>
    /\ UNCHANGED product_vars
    /\ UNCHANGED plan_vars

NextEstimate ==
    \/ Recommend
    \/ CalculateCosts

SpecEstimate == InitEstimate /\ [][NextEstimate]_vars

-----------------------------------------------------------------------------
(* What a completed call shows of the allocator's run *)

Abs(x) == IF x < 0 THEN 0 - x ELSE x

\* the call has returned
Planned == pc = "planned"

\* line 142: the service_level computed from the daily stock of line 134
InitialLevel == ServiceLevel(Frac(Sum(initial_stock), 1), Sum(daily_forecast))

\* lines 145-150 were executed
CorrectionRan ==
    /\ Planned
    /\ initial_stock # <<>>
    /\ NeedsCorrection(InitialLevel)

\* line 139: the risk function applied to the daily stock of line 134
InitialRisk ==
    _calculate_wastage_risk(Len(initial_stock), Frac(Sum(initial_stock), 1),
                            daily_forecast, shelf_life)

-----------------------------------------------------------------------------
(* Properties of the allocator's result *)

\* C1: the returned total_stock and the sum of the returned daily_stock differ
\* by at most 0.01, whether or not the correction pass ran.
TotalIsSumOfDailyStock ==
    Planned =>
        Abs(optimized_plan.total_stock - Sum(optimized_plan.daily_stock)) <= 1

\* C2: when the service level computed before the correction is below 80, for
\* a non-empty series of positive total demand, the returned service_level is
\* at least 80 and at most 100.
CorrectionReachesMinimumLevel ==
    (CorrectionRan /\ Sum(daily_forecast) > 0) =>
        /\ optimized_plan.service_level >= 8000
        /\ optimized_plan.service_level <= 10000

\* a corrected run on positive demand whose day stock was scaled up and whose
\* returned level is the minimum
CorrectionReachesMinimumLevel_witness ==
    /\ CorrectionRan
    /\ Sum(daily_forecast) > 0
    /\ FLess(InitialLevel, Frac(50, 1))
    /\ Sum(optimized_plan.daily_stock) > Sum(initial_stock)
    /\ optimized_plan.service_level = 8000

\* C3: the returned service_level is always between 0 and 100, whether or not
\* the correction pass ran.
ServiceLevelInRange ==
    Planned =>
        /\ optimized_plan.service_level >= 0
        /\ optimized_plan.service_level <= 10000

\* an uncorrected run whose stock exceeds the demand of more than one unit: the
\* cap of line 142 is what keeps the level at 100
ServiceLevelInRange_witness ==
    /\ Planned
    /\ initial_stock # <<>>
    /\ ~CorrectionRan
    /\ Sum(daily_forecast) >= 100
    /\ Sum(initial_stock) > Sum(daily_forecast)
    /\ optimized_plan.service_level = 10000

\* C4: the wastage risk, as the risk function computes it and as the allocator
\* returns it, is always between 0 and 1.
WastageRiskInRange ==
    Planned =>
        LET risk == InitialRisk
        IN  /\ risk.n >= 0
            /\ risk.n <= risk.d
            /\ optimized_plan.wastage_risk >= 0
            /\ optimized_plan.wastage_risk <= 1000

\* shelf life 0 and a corrected stock of several times the demand: the weighted
\* sum exceeds 1 and the clamp of line 183 applies
WastageRiskInRange_witness ==
    /\ CorrectionRan
    /\ shelf_life = 0
    /\ Sum(daily_forecast) > 0
    /\ optimized_plan.total_stock > 3 * Sum(daily_forecast)
    /\ optimized_plan.wastage_risk = 1000

\* C5: with the shelf life and the horizon unchanged, a day whose demand was
\* raised (the other days unchanged) gets at least the stock it got before.
RaisedDemandKeepsDayStock ==
    (Planned /\ earlier # NoCall /\ earlier.shelf_life = shelf_life
             /\ earlier.horizon = horizon) =>
        \A day \in 1 .. Len(daily_forecast) :
            daily_forecast[day] > earlier.daily_forecast[day] =>
                optimized_plan.daily_stock[day] >=
                    earlier.optimized_plan.daily_stock[day]

\* C6: for the same demand series and horizon, the wastage_risk returned with
\* shelf life 3 is at least the one returned with shelf life 30.
ShorterShelfLifeKeepsRisk ==
    (Planned /\ earlier # NoCall /\ earlier.daily_forecast = daily_forecast
             /\ earlier.horizon = horizon
             /\ earlier.shelf_life = 30 /\ shelf_life = 3) =>
        optimized_plan.wastage_risk >= earlier.optimized_plan.wastage_risk

\* the shelf life went from 30 to 3, the stock shrank with the safety stock and
\* the risk rose nonetheless
ShorterShelfLifeKeepsRisk_witness ==
    /\ Planned
    /\ earlier # NoCall
    /\ earlier.daily_forecast = daily_forecast
    /\ earlier.shelf_life = 30
    /\ shelf_life = 3
    /\ ~CorrectionRan
    /\ optimized_plan.total_stock < earlier.optimized_plan.total_stock
    /\ optimized_plan.wastage_risk > earlier.optimized_plan.wastage_risk

-----------------------------------------------------------------------------
(* Properties of the stock status *)

\* the (lower, upper) thresholds of a shelf life, in hundredths
StatusBand(shelf) ==
    IF shelf <= 3 THEN <<90, 120>>
    ELSE IF shelf \in 4 .. 7 THEN <<85, 130>>
    ELSE <<80, 140>>

-----------------------------------------------------------------------------
(* Properties of the allocation *)

\* no day of the series is below 80% of the series mean
NoDayBelowEightyPercentOfMean ==
    \A day \in 1 .. Len(daily_forecast) :
        5 * Len(daily_forecast) * daily_forecast[day] >= 4 * Sum(daily_forecast)

\* every day's stock of line 134 is at least the day's demand, the service
\* level of line 142 is at least 80, the correction pass did not run and the
\* status is not understock
ServedWithoutCorrection ==
    /\ \A day \in 1 .. Len(daily_forecast) :
           initial_stock[day] >= daily_forecast[day]
    /\ ~FLess(InitialLevel, Frac(80, 1))
    /\ ~CorrectionRan
    /\ stock_status \in {"optimal", "overstock"}

ZeroPlan == [daily_stock |-> <<0>>, total_stock |-> 0,
             wastage_risk |-> 0, service_level |-> 0]

\* C9: for an empty demand series, or an effective day count of 0, the
\* allocator returns daily_stock = [0.0], total_stock, wastage_risk and
\* service_level 0, and the correction pass is not applied.
EmptySeriesGetsZeroPlan ==
    (Planned /\ (daily_forecast = <<>> \/ Min(horizon, Len(daily_forecast)) = 0)) =>
        /\ optimized_plan = ZeroPlan
        /\ initial_stock = <<>>
        /\ ~CorrectionRan

\* a planning call with horizon 0 on a product of the longest shelf life
EmptySeriesGetsZeroPlan_witness ==
    /\ Planned
    /\ horizon = 0
    /\ daily_forecast = <<>>
    /\ shelf_life = 30
    /\ optimized_plan.daily_stock = <<0>>
    /\ stock_status = "optimal"

\* C10: for a non-empty demand series the returned daily_stock has exactly
\* min(horizon, len(demand)) entries, each one derived from the same day's
\* demand (zero exactly when that demand is zero, and a rounding of the scaled
\* stock of that day) and none negative, for every horizon of the planning call.
OneEntryPerDayOfDemand ==
    (Planned /\ daily_forecast # <<>>) =>
        LET daily_stock == optimized_plan.daily_stock
            days == 1 .. Min(horizon, Len(daily_forecast))
            total == Sum(daily_forecast)
            v == Variation(daily_forecast)
        IN  /\ Len(daily_stock) = Min(horizon, Len(daily_forecast))
            /\ DOMAIN initial_stock = days
            /\ \A day \in days :
                   /\ daily_stock[day] >= 0
                   /\ (daily_stock[day] = 0) <=> (daily_forecast[day] = 0)
                   /\ initial_stock[day] \in
                          DayStock(daily_forecast[day], shelf_life,
                                   Len(daily_forecast), total, v)

\* a series of several days with a zero day and a positive day
OneEntryPerDayOfDemand_witness ==
    /\ Planned
    /\ Len(daily_forecast) >= 3
    /\ Len(optimized_plan.daily_stock) = Len(daily_forecast)
    /\ \E day \in 1 .. Len(daily_forecast) :
           daily_forecast[day] = 0 /\ optimized_plan.daily_stock[day] = 0
    /\ \E day \in 1 .. Len(daily_forecast) :
           daily_forecast[day] > 0 /\ optimized_plan.daily_stock[day] > 0

-----------------------------------------------------------------------------
(* Properties of the allocator as a function *)

\* the arguments of this call are those of the earlier call
SameArgumentsAsEarlier ==
    /\ earlier # NoCall
    /\ earlier.daily_forecast = daily_forecast
    /\ earlier.shelf_life = shelf_life
    /\ earlier.horizon = horizon

LoopIsOver == pc \in {"returned", "responded"} /\ position > Len(product_ids.ids)

\* an id the loop plans: it has a forecast and a catalog entry (lines 40-47)
Resolvable(product_id) ==
    product_id \in DOMAIN predictions /\ product_id \in DOMAIN catalog

\* the requested ids the loop plans, in the order of the request
PlannedIds == SelectSeq(product_ids.ids, Resolvable)

EveryIdSkipped == LoopIsOver /\ stock_plan = <<>>

\* C13: a request whose catalog and forecast calls succeed and whose ids are
\* all skipped is answered without an error: HTTP 200 with an empty record
\* sequence and an empty summary.
EmptyPlanIsNotAnError ==
    (EveryIdSkipped /\ pc = "responded") =>
        /\ response.code = 200
        /\ summary = EmptySummary


\* the forecast of a planned product is all zero over at least one day
ZeroDemand(product_id) ==
    /\ predictions[product_id].daily_forecast # <<>>
    /\ \A day \in DOMAIN predictions[product_id].daily_forecast :
          predictions[product_id].daily_forecast[day] = 0

ZeroCosts == [estimated_inventory_value |-> 0, weekly_holding_cost |-> 0,
              potential_spoilage_cost |-> 0, total_cost_risk |-> 0]

\* C14: the record of a product whose forecast is all zero, whatever its shelf
\* life (0 included), has a daily stock of 0 on every day of the series, a
\* total stock, a wastage risk and a service level of 0, the status optimal, a
\* non-empty recommendation list and costs that are all 0.
ZeroDemandGetsNeutralRecord ==
    \A i \in 1 .. Len(stock_plan) :
        ZeroDemand(stock_plan[i].product_id) =>
            /\ Len(stock_plan[i].daily_stock_plan) =
                  Len(predictions[stock_plan[i].product_id].daily_forecast)
            /\ \A day \in DOMAIN stock_plan[i].daily_stock_plan :
                  stock_plan[i].daily_stock_plan[day] = 0
            /\ stock_plan[i].recommended_stock = 0
            /\ stock_plan[i].wastage_risk = 0
            /\ stock_plan[i].service_level = 0
            /\ stock_plan[i].stock_status = "optimal"
            /\ stock_plan[i].recommendations # <<>>
            /\ stock_plan[i].cost_analysis = ZeroCosts

\* a product of shelf life 0 and one of shelf life 7, both with two days of
\* zero demand, have been planned and the plan returned
ZeroDemandGetsNeutralRecord_witness ==
    /\ pc = "responded"
    /\ response.code = 200
    /\ Len(stock_plan) = 2
    /\ stock_plan[1].shelf_life_days = 0
    /\ stock_plan[2].shelf_life_days = 7
    /\ \A i \in 1 .. 2 :
          /\ ZeroDemand(stock_plan[i].product_id)
          /\ Len(stock_plan[i].daily_stock_plan) = 2


\* product_ids was given as an empty list
EmptyListRequested == product_ids.kind = "list" /\ product_ids.ids = <<>>

\* C15: a request whose product_ids is an empty list goes from its reception
\* straight to its answer, which is the validation error (HTTP 400): no
\* product is selected, no model loaded or trained, no forecast made, no
\* product planned.
EmptyListIsRejected ==
    EmptyListRequested =>
        /\ pc \in {"received", "responded"}
        /\ pc = "responded" => response = [code |-> 400, body |-> "error"]
        /\ predictions = <<>>
        /\ position = 0
        /\ stock_plan = <<>>
        /\ summary = NoSummary

\* an empty list was requested while every data file and the model exist (a
\* request without product_ids would have been planned), and it was answered
EmptyListIsRejected_witness ==
    /\ EmptyListRequested
    /\ pc = "responded"
    /\ files = DataFiles
    /\ horizon > 0
    /\ response.code = 400


\* data/products.csv does not exist
CatalogMissing == "data/products.csv" \notin files

\* the request passes the validation: product_ids is absent or a non-empty list
ValidRequest ==
    \/ product_ids.kind = "none"
    \/ (product_ids.kind = "list" /\ product_ids.ids # <<>>)

\* C16: while the catalog file does not exist, a valid request, with or without
\* product_ids, with or without a model file or sales data, never reaches the
\* planning loop and is answered with the not-found error (HTTP 404), no
\* record having been made.
MissingCatalogIsNotFound ==
    (CatalogMissing /\ ValidRequest) =>
        /\ pc \notin {"loop", "returned"}
        /\ pc = "responded" => response = [code |-> 404, body |-> "error"]
        /\ predictions = <<>>
        /\ stock_plan = <<>>
        /\ summary = NoSummary

\* explicit product ids were requested while the model exists and the catalog
\* does not, and the request was answered
MissingCatalogIsNotFound_witness ==
    /\ CatalogMissing
    /\ "models/demand_model.pkl" \in files
    /\ product_ids.kind = "list"
    /\ Len(product_ids.ids) = 2
    /\ pc = "responded"
    /\ response.code = 404


\* optimizer.py:86: the number of records returned
total_products == Len(stock_plan)

\* the count a histogram gives to a status
CountOf(distribution, status) ==
    IF status \in DOMAIN distribution THEN distribution[status] ELSE 0

\* C19: the summary returned with a non-empty plan aggregates the records of
\* that plan: its two totals are the sums of the records' recommended_stock
\* and predicted_demand, its service level and wastage risk are the means of
\* the records' values to within half a unit of their last decimal, its
\* histogram gives each status the number of records that have it, and the
\* counts add up to the number of records, which is total_products.
SummaryAggregatesRecords ==
    (pc \in {"returned", "responded"} /\ stock_plan # <<>>) =>
        /\ ~summary.is_empty
        /\ summary.total_recommended_stock = SumOf(stock_plan, "recommended_stock")
        /\ summary.total_predicted_demand = SumOf(stock_plan, "predicted_demand")
        /\ 2 * Abs(Len(stock_plan) * summary.overall_service_level
                   - SumOf(stock_plan, "service_level")) <= Len(stock_plan)
        /\ 2 * Abs(Len(stock_plan) * summary.average_wastage_risk
                   - SumOf(stock_plan, "wastage_risk")) <= Len(stock_plan)
        /\ DOMAIN summary.stock_status_distribution
              \subseteq {"optimal", "overstock", "understock"}
        /\ \A status \in {"optimal", "overstock", "understock"} :
              CountOf(summary.stock_status_distribution, status) =
                 Cardinality({i \in 1 .. Len(stock_plan) :
                                 stock_plan[i].stock_status = status})
        /\ CountOf(summary.stock_status_distribution, "optimal")
              + CountOf(summary.stock_status_distribution, "overstock")
              + CountOf(summary.stock_status_distribution, "understock")
              = total_products

\* a plan of two records of the same status, with different stocks, service
\* levels and risks, has been returned with its summary
SummaryAggregatesRecords_witness ==
    /\ pc = "responded"
    /\ response.code = 200
    /\ total_products = 2
    /\ stock_plan[1].stock_status = stock_plan[2].stock_status
    /\ stock_plan[1].recommended_stock > stock_plan[2].recommended_stock
    /\ stock_plan[2].recommended_stock > 0
    /\ stock_plan[1].service_level # stock_plan[2].service_level
    /\ stock_plan[1].wastage_risk # stock_plan[2].wastage_risk
    /\ CountOf(summary.stock_status_distribution, stock_plan[1].stock_status) = 2


\* ---------------------------------------------------------------------------
\* Claims about the recommendations and the costs
\* ---------------------------------------------------------------------------

\* the first message of each status (lines 215, 222, 226)
StatusHeadline(status) ==
    IF status = "overstock" THEN "Consider reducing order quantity by {units} units"
    ELSE IF status = "understock"
    THEN "Increase order quantity by approximately {units} units"
    ELSE "Stock level appears optimal for forecasted demand"

\* the messages of the shelf-life band (lines 231-235)
ShelfBandTexts(shelf) ==
    IF shelf <= 3
    THEN <<"Use FIFO (First In, First Out) inventory management",
           "Consider daily delivery for very perishable items">>
    ELSE IF shelf <= 7 THEN <<"Implement proper cold chain management">>
    ELSE <<>>

\* the messages about the service level (lines 239, 241)
ServiceLevelTexts ==
    {"Consider increasing safety stock to improve service level",
     "Review forecasting accuracy - may be over-forecasting"}

\* the place of a message in the fixed sequence: 1 for a message about the
\* status, 2 for one of a shelf-life band, 3 for one about the service level
MessageGroup(text) ==
    IF text \in ServiceLevelTexts THEN 3
    ELSE IF text \in {ShelfBandTexts(0)[1], ShelfBandTexts(0)[2], ShelfBandTexts(7)[1]}
    THEN 2
    ELSE 1

\* the texts of the recommendations in a group, in their order
TextsOfGroup(group) ==
    LET InGroup(message) == MessageGroup(message.text) = group
        chosen == SelectSeq(recommendations, InGroup)
    IN  [i \in 1 .. Len(chosen) |-> chosen[i].text]

IsPrefix(s, t) == Len(s) <= Len(t) /\ s = SubSeq(t, 1, Len(s))

\* C17: the recommendations made for a plan are between 1 and 4; the first is
\* the message of the status; the messages about the status come first, then
\* those of the shelf-life band of the product (FIFO then daily delivery up to
\* 3 days, cold chain from 4 to 7 days, none beyond), then the one about the
\* service level; and a message is left out only by the cut after the fourth:
\* a shorter list holds the whole band and, when the service level is below 90
\* or above 120, the message about it.
RecommendationsFollowFixedOrder ==
    pc \in {"cost", "estimated"} =>
        /\ Len(recommendations) \in 1 .. 4
        /\ recommendations[1].text = StatusHeadline(stock_status)
        /\ \A i \in 1 .. Len(recommendations) - 1 :
              MessageGroup(recommendations[i].text)
                 <= MessageGroup(recommendations[i + 1].text)
        /\ IsPrefix(TextsOfGroup(2), ShelfBandTexts(shelf_life))
        /\ Len(TextsOfGroup(3)) <= 1
        /\ TextsOfGroup(3) # <<>> => TextsOfGroup(2) = ShelfBandTexts(shelf_life)
        /\ Len(recommendations) < 4 =>
              /\ TextsOfGroup(2) = ShelfBandTexts(shelf_life)
              /\ optimized_plan.service_level < 9000 =>
                    TextsOfGroup(3) = <<"Consider increasing safety stock to improve service level">>
              /\ optimized_plan.service_level > 12000 =>
                    TextsOfGroup(3) = <<"Review forecasting accuracy - may be over-forecasting">>
              /\ optimized_plan.service_level \in 9000 .. 12000 =>
                    TextsOfGroup(3) = <<>>

\* an overstocked product of shelf life 3 with a low service level: six
\* messages apply and the list was cut after the fourth
RecommendationsFollowFixedOrder_witness ==
    /\ pc = "estimated"
    /\ stock_status = "overstock"
    /\ shelf_life = 3
    /\ optimized_plan.service_level < 9000
    /\ Len(recommendations) = 4
    /\ recommendations[4].text = "Use FIFO (First In, First Out) inventory management"


\* C18: the costs computed for a plan are given by its total stock and its
\* wastage risk alone, whatever the horizon: the inventory value is 5 times
\* the total stock; the weekly holding cost is 0.02 * 7 of that value, the
\* spoilage cost is the wastage risk times that value, and the total cost
\* risk is the sum of these two products, each rounded to the nearest cent;
\* the total is within a cent of the sum of the two rounded costs; and none of
\* the four is negative.
CostsFollowStockAndRisk ==
    pc = "estimated" =>
        LET value == 5 * optimized_plan.total_stock
            risk == optimized_plan.wastage_risk
        IN  /\ cost_analysis.estimated_inventory_value = value
            /\ 2 * Abs(100 * cost_analysis.weekly_holding_cost - 14 * value) <= 100
            /\ 2 * Abs(1000 * cost_analysis.potential_spoilage_cost - risk * value)
                  <= 1000
            /\ 2 * Abs(1000 * cost_analysis.total_cost_risk - (140 + risk) * value)
                  <= 1000
            /\ Abs(cost_analysis.total_cost_risk
                   - (cost_analysis.weekly_holding_cost
                      + cost_analysis.potential_spoilage_cost)) <= 1
            /\ cost_analysis.estimated_inventory_value >= 0
            /\ cost_analysis.weekly_holding_cost >= 0
            /\ cost_analysis.potential_spoilage_cost >= 0
            /\ cost_analysis.total_cost_risk >= 0

\* the costs of 50 units at a wastage risk of 0.301, computed for a request
\* whose horizon is not 7 days: a value of 250, a holding cost of 35, a
\* spoilage cost of 75.25
CostsFollowStockAndRisk_witness ==
    /\ pc = "estimated"
    /\ horizon = 2
    /\ optimized_plan.total_stock = 5000
    /\ optimized_plan.wastage_risk = 301
    /\ cost_analysis.estimated_inventory_value = 25000
    /\ cost_analysis.weekly_holding_cost = 3500
    /\ cost_analysis.potential_spoilage_cost \in {7525, 7526}


\* ---------------------------------------------------------------------------
\* Claims about the forecaster
\* ---------------------------------------------------------------------------

\* C20: every product the forecaster has served has a daily series of one
\* entry per day of the horizon (none when the horizon is not positive), each
\* entry at least 0, and a total_forecast equal to the sum of the entries; a
\* day whose prediction failed holds the fallback value and is not left out.
ForecastHasOneEntryPerDay ==
    \A product_id \in DOMAIN predictions :
        /\ Len(predictions[product_id].daily_forecast) = Max(horizon, 0)
        /\ \A day \in DOMAIN predictions[product_id].daily_forecast :
              predictions[product_id].daily_forecast[day] >= 0
        /\ predictions[product_id].total_forecast =
              Sum(predictions[product_id].daily_forecast)

\* the forecaster returned, for a horizon of two days, a series for product A
\* whose first day is the fallback (the historical average of A, which the
\* model never predicts) and whose second day was predicted
ForecastHasOneEntryPerDay_witness ==
    /\ pc = "forecast_done"
    /\ horizon = 2
    /\ "A" \in DOMAIN predictions
    /\ predictions["A"].daily_forecast = <<Fallback("A"), 8>>
    /\ Fallback("A") \notin RawPredictions
    /\ predictions["A"].total_forecast = Fallback("A") + 8


\* ---------------------------------------------------------------------------
\* Claims about the catalog's shelf life
\* ---------------------------------------------------------------------------

\* the catalog row of a product gives no number as its shelf life
WithoutShelfLife(product_id) ==
    product_id \in DOMAIN catalog /\ catalog[product_id].cell # "value"

\* an id of the request that is planned
SomeIdResolvable ==
    \E i \in 1 .. Len(product_ids.ids) : Resolvable(product_ids.ids[i])

\* C21: a product whose catalog row has no shelf_life_days value is planned
\* with a shelf life of 7 days: its record is one that the allocator, the
\* risk, the status and the estimators give for 7 days, with 7 as its
\* shelf_life_days; and the request does not fail for it: once the forecasts
\* are made, an error is answered only when no requested id can be planned.
MissingShelfLifeIsSevenDays ==
    /\ \A i \in 1 .. Len(stock_plan) :
          WithoutShelfLife(stock_plan[i].product_id) =>
              /\ stock_plan[i].shelf_life_days = 7
              /\ stock_plan[i] \in PlanRecords(stock_plan[i].product_id, 7,
                                               predictions[stock_plan[i].product_id])
    /\ (pc = "responded" /\ position >= 1 /\ SomeIdResolvable) => response.code = 200


\* ---------------------------------------------------------------------------
\* Properties of the daily stock before the correction pass
\* ---------------------------------------------------------------------------

\* the values line 134 may give to a day, for a shelf life
DayStockOutcomes(day, shelf) ==
    DayStock(daily_forecast[day], shelf, Len(daily_forecast), Sum(daily_forecast),
             Variation(daily_forecast))

\* the earlier call was made for the same demand and a longer shelf life
ShelfLifeWasShortened ==
    /\ Planned
    /\ earlier # NoCall
    /\ earlier.daily_forecast = daily_forecast
    /\ earlier.horizon = horizon
    /\ earlier.shelf_life > shelf_life

RequestedIds == {product_ids.ids[i] : i \in 1 .. Len(product_ids.ids)}

\* the records a product can get from its own forecast and catalog row
OwnRecords(product_id) ==
    PlanRecords(product_id, ShelfLifeOf(catalog[product_id]), predictions[product_id])

TextsOf(record) ==
    {record.recommendations[i].text : i \in 1 .. Len(record.recommendations)}

\* C24: in every record of a plan the service level is at most 100, so that
\* the advice to review the forecasting accuracy, given above 120, is in no
\* record; and the advice to increase the safety stock is only in records
\* whose service level is below 90.
ReviewAdviceIsNeverGiven ==
    \A i \in 1 .. Len(stock_plan) :
        /\ stock_plan[i].service_level <= 10000
        /\ "Review forecasting accuracy - may be over-forecasting"
              \notin TextsOf(stock_plan[i])
        /\ "Consider increasing safety stock to improve service level"
              \in TextsOf(stock_plan[i])
           => stock_plan[i].service_level < 9000

\* a plan was returned with a product stocked beyond 120% of a demand of more
\* than a unit, whose service level is 100 and which gets no advice on it, and
\* a product whose service level is below 90 and which is advised to increase
\* its safety stock
ReviewAdviceIsNeverGiven_witness ==
    /\ pc = "responded"
    /\ response.code = 200
    /\ \E i \in 1 .. Len(stock_plan) :
          /\ stock_plan[i].predicted_demand > 100
          /\ 10 * stock_plan[i].recommended_stock > 12 * stock_plan[i].predicted_demand
          /\ stock_plan[i].service_level = 10000
          /\ TextsOf(stock_plan[i]) \cap ServiceLevelTexts = {}
    /\ \E i \in 1 .. Len(stock_plan) :
          /\ stock_plan[i].service_level < 9000
          /\ "Consider increasing safety stock to improve service level"
                \in TextsOf(stock_plan[i])

=============================================================================
